---- MODULE Spec2Model ----
(***************************************************************************)
(* PsychMusic: the tempo estimator (AudioInformationExtractor), the        *)
(* particle pool of AudioVisualizer and its start/stop lifecycle, and the  *)
(* particle filter of Psych.                                               *)
(*                                                                         *)
(* Numbers that are reals in the program are kept exact: a band level and  *)
(* a particle's maxLife are fractions [num, den].                          *)
(***************************************************************************)
EXTENDS Integers, Sequences, FiniteSets, TLC

VARIABLES
    extractor,   \* AudioInformationExtractor: peaks, lastPeakTime, intervals, currentBPM
    now,         \* the clock read by Date.now(), in ms
    lastOp,      \* the last call made on the extractor: op, bass, time, ret
    audioInfo,   \* the AudioInfo last returned by analyzeAudio (the component's state)
    allPeaks,    \* history: every peak registered since construction or reset()
    twin,        \* <<>>, or <<[e, ret, info]>>: an extractor constructed at the last reset()
                 \* and fed the same calls since, with what its last call returned
    beat,        \* the period, in ms, of the steady bass signal fed to the extractor
    odd,         \* number of calls so far that were not a beat of the steady signal
    calls,       \* number of calls made so far
    mounted,     \* the component rendered: "AudioVisualizer", "Psych" or "none"
    audioFile,   \* AudioVisualizer: audioFile state is non-null
    isPlaying,   \* AudioVisualizer: isPlaying state
    analyser,    \* analyserRef.current is non-null
    dataArray,   \* dataArrayRef.current is non-null
    loading,     \* Audio elements created by handleFileSelect that await loadedmetadata
    framePending,  \* the animation frame whose id animationFrameRef holds is pending
    orphanFrames,  \* pending animation frames of animate whose id is no longer held
    particles,   \* particlesRef.current of the mounted component: [id, life, maxLife],
                 \* and where the motion is followed also [x, y, vx, vy, hue]
    nextId,      \* number of particles created so far (a particle's id is its serial number)
    ticks,       \* number of ticks run so far
    signal,      \* the spectrum the analyser currently delivers: "silent", "bass" or "loud"
    changes,     \* number of times the spectrum changed
    seed,        \* offset of the random source's cycle of draws
    lastTick,    \* <<>>, or what the tick just run did: particles spawned, pool size
                 \* after createParticles, particles evicted by the bound, particles
                 \* expired, ids of the pool after createParticles, particles drawn
                 \* (as they were when drawn)
    frame,       \* the spectrum last analysed: its length and its shape
    sampleRate,  \* audioContext.sampleRate
    audioProps,  \* <<>>, or the AudioProperties last returned by Psych's AudioAnalyzer
    canvas,      \* AudioVisualizer: width and height of the canvas
    spawn,       \* <<>>, or the band levels last given to createParticles with the count
                 \* and the colour it computed from them
    event        \* the handler of AudioVisualizer that ran last, what it did and what it
                 \* reported to the user (an alert) or to its caller (nothing is thrown)

tempoVars == <<extractor, now, lastOp, audioInfo, allPeaks, twin>>
driverVars == <<beat, odd, calls>>
refVars == <<audioFile, isPlaying, analyser, dataArray, loading, framePending, orphanFrames>>
poolVars == <<particles, nextId, ticks, lastTick>>
inputVars == <<signal, changes, seed>>
visVars == <<mounted, refVars, poolVars, inputVars>>
featVars == <<frame, sampleRate, audioProps, spawn, canvas>>
vars == <<tempoVars, driverVars, visVars, featVars, event>>

(***************************************************************************)
(* Bounds of the model.                                                    *)
(***************************************************************************)
MaxCalls == 11      \* calls on the extractor in one behaviour
MaxOdd == 2         \* calls in one behaviour that depart from the steady beat
MaxPoolTicks == 56  \* ticks of AudioVisualizer in one behaviour of the pool
MaxChanges == 2     \* changes of the spectrum in one behaviour of the pool
ChangeEvery == 8    \* the spectrum of the pool changes only at every ChangeEvery-th tick
MaxPsychTicks == 104  \* ticks of Psych in one behaviour
MaxPsychSpawns == 2   \* ticks of Psych that create particles in one behaviour
PsychSpawnEvery == 16 \* Psych creates particles only at every PsychSpawnEvery-th tick
MaxVisTicks == 5    \* ticks in one behaviour of the lifecycle
MaxVisChanges == 1  \* changes of the spectrum in one behaviour of the lifecycle
MaxLoads == 2       \* Audio elements loading at once
TickMs == 16        \* clock advance between two animation frames
LifeScale == 10     \* the random part of a particle's maxLife is drawn in 1/LifeScale ticks
MaxFeatCalls == 2   \* spectra given to the extractor in one behaviour
MaxSpawnCalls == 2  \* calls of createParticles on given band levels in one behaviour
RandomScale == 10   \* Math.random() is drawn in 1/RandomScale
MaxMotionTicks == 2  \* ticks in which the motion of the particles is followed

StartTimes == {0, 1000}          \* clock value at construction
Beats == {201, 500, 1005}        \* periods of the steady bass signal
OddDts == {0, 200}               \* clock advance before a loud sample off the beat
VisDts == {TickMs, 250}          \* clock advance before a tick of the lifecycle

(***************************************************************************)
(* Exact fractions.                                                        *)
(***************************************************************************)
Frac(n, d) == [num |-> n, den |-> d]

FracGt(r, k) == r.den > 0 /\ r.num > k * r.den

\* sum of s[lo..hi], by halves
RECURSIVE SumRange(_, _, _)
SumRange(s, lo, hi) ==
    IF hi < lo THEN 0
    ELSE IF hi = lo THEN s[lo]
    ELSE LET m == (lo + hi) \div 2
         IN  SumRange(s, lo, m) + SumRange(s, m + 1, hi)

\* reduce((a, b) => a + b, 0)
SumSeq(s) == SumRange(s, 1, Len(s))

\* Array.prototype.slice(from, to) on a 0-based array kept as a 1-based sequence
Slice(s, from, to) ==
    LET lo == IF from > Len(s) THEN Len(s) ELSE from
        hi == IF to > Len(s) THEN Len(s) ELSE to
    IN  IF hi <= lo THEN <<>> ELSE SubSeq(s, lo + 1, hi)

\* Array.prototype.shift: drop the first element
Shift(s) == Tail(s)

(***************************************************************************)
(* AudioInformationExtractor                                               *)
(***************************************************************************)
PeakThreshold == 180
RefractoryMs == 200
MaxIntervals == 8
MaxPeaks == 10
MinIntervals == 4
MinBPM == 60
MaxBPM == 200
DefaultBPM == 120

\* field initialisers of the class
NewExtractor ==
    [peaks |-> <<>>, lastPeakTime |-> 0, intervals |-> <<>>, currentBPM |-> DefaultBPM]

\* the condition of the peak test
IsPeakAtLeast(e, bass, t) ==
    FracGt(bass, PeakThreshold) /\ t - e.lastPeakTime >= RefractoryMs

IsPeak(e, bass, t) ==
    FracGt(bass, PeakThreshold) /\ t - e.lastPeakTime > RefractoryMs

\* intervals.push(interval), then shift() when more than 8 are held
PushIntervalNoCap(ints, x) == Append(ints, x)

PushInterval(ints, x) ==
    LET pushed == Append(ints, x)
    IN  IF Len(pushed) > MaxIntervals THEN Shift(pushed) ELSE pushed

\* peaks.shift() when more than 10 are held
TrimPeaks(ps) == IF Len(ps) > MaxPeaks THEN Shift(ps) ELSE ps

\* Math.round(60000 / avgInterval), avgInterval = sum / length (sum > 0):
\* Math.round(x) = floor(x + 1/2), so floor((120000 * length + sum) / (2 * sum)).
\* In double arithmetic the quotient is the exact one rounded twice; for up to
\* 8 intervals of 201..6000 ms the result differs from the exact one only at
\* length 6, sum 3200, where 60000 / (3200 / 6) evaluates to 112.49999999999999.
CalculatedBPMPerPeak(ints) ==
    (120000 * (Len(ints) + 1) + SumSeq(ints)) \div (2 * SumSeq(ints))

CalculatedBPM(ints) ==
    IF Len(ints) = 6 /\ SumSeq(ints) = 3200 THEN 112
    ELSE (120000 * Len(ints) + SumSeq(ints)) \div (2 * SumSeq(ints))

\* "Only update BPM if it's within reasonable range"
InRangeAlways(bpm) == TRUE

InRangeNoUpper(bpm) == bpm >= MinBPM

InRange(bpm) == bpm >= MinBPM /\ bpm <= MaxBPM

\* enough intervals for a BPM calculation
EnoughIntervalsAny(ints) == Len(ints) >= 1

EnoughIntervals(ints) == Len(ints) >= MinIntervals

\* detectBPM(bass) with Date.now() = t: the extractor afterwards
DetectBPMStampsEveryCall(e, bass, t) ==
    IF ~IsPeak(e, bass, t) THEN [e EXCEPT !.lastPeakTime = t]
    ELSE
        LET pushed == Append(e.peaks, t)
            ints == IF Len(pushed) > 1
                        THEN PushInterval(e.intervals, t - pushed[Len(pushed) - 1])
                        ELSE e.intervals
            bpm == IF Len(pushed) > 1 /\ EnoughIntervals(ints) /\ InRange(CalculatedBPM(ints))
                       THEN CalculatedBPM(ints)
                       ELSE e.currentBPM
        IN  [peaks |-> TrimPeaks(pushed), lastPeakTime |-> t,
             intervals |-> ints, currentBPM |-> bpm]

DetectBPMStampsAfterInterval(e, bass, t) ==
    IF ~IsPeak(e, bass, t) THEN e
    ELSE
        LET pushed == Append(e.peaks, t)
            ints == IF Len(pushed) > 1
                        THEN PushInterval(e.intervals, t - pushed[Len(pushed) - 1])
                        ELSE e.intervals
            bpm == IF Len(pushed) > 1 /\ EnoughIntervals(ints) /\ InRange(CalculatedBPM(ints))
                       THEN CalculatedBPM(ints)
                       ELSE e.currentBPM
        IN  [peaks |-> TrimPeaks(pushed),
             lastPeakTime |-> IF Len(pushed) > 1 THEN t ELSE e.lastPeakTime,
             intervals |-> ints, currentBPM |-> bpm]

DetectBPM(e, bass, t) ==
    IF ~IsPeak(e, bass, t) THEN e
    ELSE
        LET pushed == Append(e.peaks, t)
            ints == IF Len(pushed) > 1
                        THEN PushInterval(e.intervals, t - pushed[Len(pushed) - 1])
                        ELSE e.intervals
            bpm == IF Len(pushed) > 1 /\ EnoughIntervals(ints) /\ InRange(CalculatedBPM(ints))
                       THEN CalculatedBPM(ints)
                       ELSE e.currentBPM
        IN  [peaks |-> TrimPeaks(pushed), lastPeakTime |-> t,
             intervals |-> ints, currentBPM |-> bpm]

\* reset()
ResetKeepsIntervals(e) ==
    [peaks |-> <<>>, lastPeakTime |-> 0, intervals |-> e.intervals, currentBPM |-> DefaultBPM]

ResetExtractor(e) ==
    [peaks |-> <<>>, lastPeakTime |-> 0, intervals |-> <<>>, currentBPM |-> DefaultBPM]

\* getCurrentBPM()
GetCurrentBPM(e) == e.currentBPM

\* extractFrequencyBands(frequencyData)
ExtractFrequencyBandsOverlap(f) ==
    [bass |-> Frac(SumSeq(Slice(f, 0, 50)), 50),
     mid |-> Frac(SumSeq(Slice(f, 49, 150)), 100),
     treble |-> Frac(SumSeq(Slice(f, 150, 256)), 106)]

ExtractFrequencyBandsWrongDivisor(f) ==
    [bass |-> Frac(SumSeq(Slice(f, 0, 50)), 50),
     mid |-> Frac(SumSeq(Slice(f, 50, 150)), 100),
     treble |-> Frac(SumSeq(Slice(f, 150, 256)), 100)]

ExtractFrequencyBands(f) ==
    [bass |-> Frac(SumSeq(Slice(f, 0, 50)), 50),
     mid |-> Frac(SumSeq(Slice(f, 50, 150)), 100),
     treble |-> Frac(SumSeq(Slice(f, 150, 256)), 106)]

\* calculateVolume(frequencyData): sum / length (0/0 for an empty array)
CalculateVolumeOverFrameBins(f) == Frac(SumSeq(f), 256)

CalculateVolume(f) == Frac(SumSeq(f), Len(f))

\* the pure part of analyzeAudio(frequencyData): the bands and the volume
FrameAnalysis(f) == [bands |-> ExtractFrequencyBands(f), volume |-> CalculateVolume(f)]

\* analyzeAudio with Date.now() = t, given the bands and the volume of its
\* argument: the AudioInfo returned (its frequencyData field is the argument
\* itself and is left out)
AudioInfoOf(e, a, t) ==
    [bpm |-> GetCurrentBPM(DetectBPM(e, a.bands.bass, t)),
     bass |-> a.bands.bass, mid |-> a.bands.mid, treble |-> a.bands.treble,
     volume |-> a.volume]

\* analyzeAudio(frequencyData) with Date.now() = t: the AudioInfo returned
AnalyzeAudioInfo(e, f, t) == AudioInfoOf(e, FrameAnalysis(f), t)

\* the AudioInfo the component starts with and returns to on stop
InitialAudioInfo ==
    [bpm |-> 120, bass |-> Frac(0, 1), mid |-> Frac(0, 1), treble |-> Frac(0, 1),
     volume |-> Frac(0, 1)]

(***************************************************************************)
(* Spectrum frames: analyser.fftSize = 512 gives 256 bins of 0..255.       *)
(***************************************************************************)
FftSize == 512
FrameBins == FftSize \div 2

Frame3(b, m, t) ==
    [i \in 1..FrameBins |-> IF i <= 50 THEN b ELSE IF i <= 150 THEN m ELSE t]

SilentFrame == Frame3(0, 0, 0)
BassFrame == Frame3(181, 0, 0)
LoudFrame == Frame3(255, 255, 255)
MidFrame == Frame3(0, 255, 0)
TrebleFrame == Frame3(0, 0, 255)

AllSignals == {"silent", "bass", "loud", "mid", "treble"}

FrameOf(sig) ==
    IF sig = "silent" THEN SilentFrame
    ELSE IF sig = "bass" THEN BassFrame
    ELSE IF sig = "mid" THEN MidFrame
    ELSE IF sig = "treble" THEN TrebleFrame
    ELSE LoudFrame

\* a spectrum given by its length and its shape: all bins 0, all bins 255,
\* one bin (0-based index at) 255 and the others 0, or bins of unequal values
Spectrum(fr) ==
    [i \in 1..fr.n |->
        IF fr.shape = "full" THEN 255
        ELSE IF fr.shape = "bin" THEN (IF i - 1 = fr.at THEN 255 ELSE 0)
        ELSE IF fr.shape = "ramp" THEN ((i - 1) * 7) % 256
        ELSE 0]

\* the spectra given to the extractor through its public methods: the 256
\* bins of the analyser, and arrays of other lengths, shorter and longer
ExtractorLengths == {0, 30, 100, 128, 256, 512}
BinsProbed == {0, 49, 50, 149, 150, 255, 256, 511}

ExtractorFrames ==
    {[n |-> k, shape |-> sh, at |-> 0] :
        k \in ExtractorLengths \ {0}, sh \in {"zeros", "full", "ramp"}}
    \cup {[n |-> 0, shape |-> "zeros", at |-> 0]}
    \cup {fr \in [n : ExtractorLengths, shape : {"bin"}, at : BinsProbed] : fr.at < fr.n}

\* the bands and the volume of each spectrum delivered, computed once
ExtractorAnalysis == [fr \in ExtractorFrames |-> FrameAnalysis(Spectrum(fr))]

Analysis ==
    ("silent" :> FrameAnalysis(FrameOf("silent")))
    @@ ("bass" :> FrameAnalysis(FrameOf("bass")))
    @@ ("loud" :> FrameAnalysis(FrameOf("loud")))
    @@ ("mid" :> FrameAnalysis(FrameOf("mid")))
    @@ ("treble" :> FrameAnalysis(FrameOf("treble")))

(***************************************************************************)
(* Calls on the extractor, with the history kept beside it.                *)
(***************************************************************************)
NoOp == [op |-> "new", bass |-> Frac(0, 1), time |-> 0, ret |-> 0]

\* the call pushed a timestamp on the peak history
Pushed(e, after) == after.peaks # e.peaks

\* a call detectBPM(bass) at Date.now() = t
DoDetectBPM(bass, t) ==
    LET e == DetectBPM(extractor, bass, t)
    IN  /\ now' = t
        /\ extractor' = e
        /\ lastOp' = [op |-> "detectBPM", bass |-> bass, time |-> t,
                      ret |-> GetCurrentBPM(e)]
        /\ allPeaks' = IF Pushed(extractor, e) THEN Append(allPeaks, t) ELSE allPeaks
        /\ twin' = IF twin = <<>> THEN <<>>
                   ELSE LET te == DetectBPM(twin[1].e, bass, t)
                        IN  <<[e |-> te, ret |-> GetCurrentBPM(te), info |-> twin[1].info]>>
        /\ UNCHANGED audioInfo

\* a call analyzeAudio(frequencyData) at Date.now() = t, the spectrum being
\* the one whose bands and volume are a (the one of signal sig); the caller
\* keeps the AudioInfo returned
DoAnalyzeWith(a, t) ==
    LET e == DetectBPM(extractor, a.bands.bass, t)
    IN  /\ now' = t
        /\ extractor' = e
        /\ audioInfo' = AudioInfoOf(extractor, a, t)
        /\ lastOp' = [op |-> "analyzeAudio", bass |-> a.bands.bass, time |-> t,
                      ret |-> GetCurrentBPM(e)]
        /\ allPeaks' = IF Pushed(extractor, e) THEN Append(allPeaks, t) ELSE allPeaks
        /\ twin' = IF twin = <<>> THEN <<>>
                   ELSE <<[e |-> DetectBPM(twin[1].e, a.bands.bass, t),
                           ret |-> AudioInfoOf(twin[1].e, a, t).bpm,
                           info |-> AudioInfoOf(twin[1].e, a, t)]>>

DoAnalyzeAudio(sig, t) == DoAnalyzeWith(Analysis[sig], t)

\* a call reset(); a fresh extractor is constructed beside it
DoReset ==
    /\ extractor' = ResetExtractor(extractor)
    /\ lastOp' = [op |-> "reset", bass |-> Frac(0, 1), time |-> now, ret |-> 0]
    /\ allPeaks' = <<>>
    /\ twin' = <<[e |-> NewExtractor, ret |-> 0, info |-> InitialAudioInfo]>>
    /\ UNCHANGED now

(***************************************************************************)
(* AudioVisualizer: particles.                                             *)
(***************************************************************************)
maxParticles == 250
MaxLifeBase == 50
MaxLifeJitter == 80

\* Math.random() * 80 for maxLife, in units of 1/LifeScale ticks: the random
\* source is a cycle of draws entered at an offset
LifeDraws == <<0, 5, MaxLifeJitter * LifeScale - 5>>

LifeDraw(k) == LifeDraws[(k % Len(LifeDraws)) + 1]

\* Math.random(): the random source is a cycle of draws, the k-th call
\* returning RandomDraw(k) / RandomScale
RandomDraws == <<0, 5, RandomScale - 1>>

RandomDraw(k) == RandomDraws[(k % Len(RandomDraws)) + 1]

\* base + Math.random() * width and base + (Math.random() - 0.5) * width
Spread(base, width, k) == Frac(base * 2 * RandomScale + 2 * RandomDraw(k) * width, 2 * RandomScale)
Centred(base, width, k) ==
    Frac(base * 2 * RandomScale + (2 * RandomDraw(k) - RandomScale) * width, 2 * RandomScale)

\* getFrequencyColor(bass, mid, treble), its first Math.random() being call k
GetFrequencyColorMidFirst(bass, mid, treble, k) ==
    IF FracGt(mid, 180)
        THEN [hue |-> Centred(120, 60, k + 1), saturation |-> Spread(90, 10, k + 2),
              lightness |-> Spread(45, 25, k + 3)]
    ELSE IF FracGt(bass, 200)
        THEN [hue |-> Centred(280, 60, k + 1), saturation |-> Frac(100, 1),
              lightness |-> Spread(40, 30, k + 2)]
    ELSE IF FracGt(treble, 160)
        THEN [hue |-> Centred(20, 80, k + 1), saturation |-> Spread(85, 15, k + 2),
              lightness |-> Spread(50, 20, k + 3)]
    ELSE [hue |-> Spread(0, 360, k), saturation |-> Spread(70, 30, k + 1),
          lightness |-> Spread(55, 20, k + 2)]

GetFrequencyColor(bass, mid, treble, k) ==
    IF FracGt(bass, 200)
        THEN [hue |-> Centred(280, 60, k + 1), saturation |-> Frac(100, 1),
              lightness |-> Spread(40, 30, k + 2)]
    ELSE IF FracGt(mid, 180)
        THEN [hue |-> Centred(120, 60, k + 1), saturation |-> Spread(90, 10, k + 2),
              lightness |-> Spread(45, 25, k + 3)]
    ELSE IF FracGt(treble, 160)
        THEN [hue |-> Centred(20, 80, k + 1), saturation |-> Spread(85, 15, k + 2),
              lightness |-> Spread(50, 20, k + 3)]
    ELSE [hue |-> Spread(0, 360, k), saturation |-> Spread(70, 30, k + 1),
          lightness |-> Spread(55, 20, k + 2)]

\* floor((level / 255) * weight)
FloorWeight(level, weight) == (level.num * weight) \div (level.den * 255)

Max(a, b) == IF a >= b THEN a ELSE b

\* particleCount
ParticleCountFloorOfSum(info) ==
    Max(1, (info.bass.num * 8 * info.mid.den * info.treble.den
            + info.mid.num * 5 * info.bass.den * info.treble.den
            + info.treble.num * 3 * info.bass.den * info.mid.den)
           \div (255 * info.bass.den * info.mid.den * info.treble.den) + 1)

ParticleCount(info) ==
    Max(1, FloorWeight(info.bass, 8) + FloorWeight(info.mid, 5)
            + FloorWeight(info.treble, 3) + 1)

\* the particle pushed as the k-th one ever created: life 0, maxLife = 50 + random * 80
NewParticle(k, sd) ==
    [id |-> k, life |-> 0, maxLife |-> Frac(MaxLifeBase * LifeScale + LifeDraw(sd + k), LifeScale)]

\* the bound on the pool: slice(-maxParticles) when longer
BoundPoolKeepOldest(ps) ==
    IF Len(ps) > maxParticles THEN SubSeq(ps, 1, maxParticles) ELSE ps

BoundPoolOffByOne(ps) ==
    IF Len(ps) > maxParticles + 1 THEN SubSeq(ps, Len(ps) - maxParticles + 1, Len(ps)) ELSE ps

BoundPool(ps) ==
    IF Len(ps) > maxParticles THEN SubSeq(ps, Len(ps) - maxParticles + 1, Len(ps)) ELSE ps

\* createParticles(audioInfo): the pool afterwards
CreateParticles(ps, info, first, sd) ==
    BoundPool(ps \o [i \in 1..ParticleCount(info) |-> NewParticle(first + i - 1, sd)])

\* the update of one particle in the filter callback: life++
AgeParticle(q) == [q EXCEPT !.life = q.life + 1]

\* the filter callback's result: life < maxLife
StaysAliveInclusive(q) == q.life * q.maxLife.den <= q.maxLife.num

StaysAlive(q) == q.life * q.maxLife.den < q.maxLife.num

\* Array.prototype.filter with the update applied to every element
RECURSIVE FilterRange(_, _, _)
FilterRange(ps, lo, hi) ==
    IF hi < lo THEN <<>>
    ELSE IF hi = lo
        THEN (IF StaysAlive(AgeParticle(ps[lo])) THEN <<AgeParticle(ps[lo])>> ELSE <<>>)
    ELSE LET m == (lo + hi) \div 2
         IN  FilterRange(ps, lo, m) \o FilterRange(ps, m + 1, hi)

\* the particles handed to drawParticle by the filter callback: every element,
\* as updated, before the callback's result is known
DrawnParticles(ps) == [i \in 1..Len(ps) |-> AgeParticle(ps[i])]

UpdateParticles(ps) == FilterRange(ps, 1, Len(ps))

(***************************************************************************)
(* AudioVisualizer: the spectrum delivered and the tick.                   *)
(***************************************************************************)
Signals == {"silent", "loud"}

\* the body of animate past its guard, with Date.now() = t: analyzeAudio,
\* setAudioInfo, createParticles, the particle filter
Tick(sig, t) ==
    LET info == AudioInfoOf(extractor, Analysis[sig], t)
        n == ParticleCount(info)
        created == CreateParticles(particles, info, nextId, seed)
    IN  /\ DoAnalyzeAudio(sig, t)
        /\ particles' = UpdateParticles(created)
        /\ nextId' = nextId + n
        /\ ticks' = ticks + 1
        /\ lastTick' = <<[spawned |-> n, afterSpawn |-> Len(created),
                           evicted |-> Len(particles) + n - Len(created),
                           expired |-> Len(created) - Len(UpdateParticles(created)),
                           ids |-> [i \in 1..Len(created) |-> created[i].id],
                           drawn |-> DrawnParticles(created)]>>

\* the canvas as sized on mount: window.innerWidth by window.innerHeight
InitialCanvas == [width |-> 800, height |-> 600]

\* nothing analysed, nothing created and no handler run yet
NoFrame == [n |-> 0, shape |-> "none", at |-> 0]
NoEvent == [fn |-> "none", outcome |-> "none", reported |-> "nothing"]

FeatIdle ==
    /\ frame = NoFrame
    /\ audioProps = <<>>
    /\ spawn = <<>>
    /\ event = NoEvent

\* the component as mounted: nothing selected, nothing playing
VisIdle ==
    /\ audioFile = FALSE
    /\ isPlaying = FALSE
    /\ analyser = FALSE
    /\ dataArray = FALSE
    /\ loading = 0
    /\ framePending = FALSE
    /\ orphanFrames = 0
    /\ particles = <<>>
    /\ nextId = 0
    /\ ticks = 0
    /\ lastTick = <<>>
    /\ changes = 0

\* handleFileSelect with an audio file: an Audio element is created and loads
HandleFileSelect(maxLoads) ==
    /\ mounted = "AudioVisualizer"
    /\ ~audioFile
    /\ loading < maxLoads
    /\ loading' = loading + 1
    /\ lastTick' = <<>>
    /\ event' = [fn |-> "handleFileSelect", outcome |-> "loading", reported |-> "nothing"]
    /\ UNCHANGED <<tempoVars, driverVars, featVars, mounted, audioFile, isPlaying, analyser, dataArray,
                   framePending, orphanFrames, particles, nextId, ticks, inputVars>>

\* handleFileSelect with no file, or with one that is neither audio/mpeg nor
\* audio/wav: nothing is done
HandleFileSelectNoAudio ==
    /\ mounted = "AudioVisualizer"
    /\ lastTick' = <<>>
    /\ event' = [fn |-> "handleFileSelect", outcome |-> "ignored", reported |-> "nothing"]
    /\ UNCHANGED <<tempoVars, driverVars, featVars, mounted, refVars, particles, nextId, ticks,
                   inputVars>>

\* loadedmetadata of a file of 10 seconds or less: alert, nothing else
MetadataLoadedShort ==
    /\ mounted = "AudioVisualizer"
    /\ loading > 0
    /\ loading' = loading - 1
    /\ lastTick' = <<>>
    /\ event' = [fn |-> "loadedmetadata", outcome |-> "short", reported |-> "alert"]
    /\ UNCHANGED <<tempoVars, driverVars, featVars, mounted, audioFile, isPlaying, analyser, dataArray,
                   framePending, orphanFrames, particles, nextId, ticks, inputVars>>

\* loadedmetadata of a longer file: setAudioFile, playAudio, and in it
\* startVisualization, which runs animate once and requests the next frame
MetadataLoaded(maxTicks, dts) ==
    /\ mounted = "AudioVisualizer"
    /\ loading > 0
    /\ ticks < maxTicks
    /\ loading' = loading - 1
    /\ audioFile' = TRUE
    /\ isPlaying' = TRUE
    /\ analyser' = TRUE
    /\ dataArray' = TRUE
    /\ \E dt \in dts : Tick(signal, now + dt)
    /\ framePending' = TRUE
    /\ orphanFrames' = orphanFrames + (IF framePending THEN 1 ELSE 0)
    /\ event' = [fn |-> "loadedmetadata", outcome |-> "started", reported |-> "nothing"]
    /\ UNCHANGED <<driverVars, featVars, mounted, inputVars>>

\* the spectrum changes between two frames
ChangeSignal(maxChanges, every) ==
    /\ mounted = "AudioVisualizer"
    /\ isPlaying
    /\ changes < maxChanges
    /\ ticks % every = 0
    /\ \E sig \in Signals \ {signal} : signal' = sig
    /\ changes' = changes + 1
    /\ lastTick' = <<>>
    /\ UNCHANGED event
    /\ UNCHANGED <<tempoVars, driverVars, featVars, mounted, refVars, particles, nextId, ticks, seed>>

\* the animation frame whose id animationFrameRef holds fires: animate
AnimationFrame(maxTicks, dts) ==
    /\ mounted = "AudioVisualizer"
    /\ framePending
    /\ IF ~analyser \/ ~dataArray
           THEN /\ framePending' = FALSE
                /\ lastTick' = <<>>
                /\ event' = [fn |-> "animate", outcome |-> "returned", reported |-> "nothing"]
                /\ UNCHANGED <<tempoVars, particles, nextId, ticks>>
           ELSE /\ ticks < maxTicks
                /\ \E dt \in dts : Tick(signal, now + dt)
                /\ framePending' = TRUE
                /\ event' = [fn |-> "animate", outcome |-> "ticked", reported |-> "nothing"]
    /\ UNCHANGED <<driverVars, featVars, mounted, audioFile, isPlaying, analyser, dataArray, loading,
                   orphanFrames, inputVars>>

\* an animation frame requested by an earlier animate, whose id was
\* overwritten in animationFrameRef, fires: animate
OrphanFrameReschedules(maxTicks, dts) ==
    /\ mounted = "AudioVisualizer"
    /\ orphanFrames > 0
    /\ IF ~analyser \/ ~dataArray
           THEN /\ orphanFrames' = orphanFrames - 1
                /\ framePending' = TRUE
                /\ lastTick' = <<>>
                /\ event' = [fn |-> "animate", outcome |-> "returned", reported |-> "nothing"]
                /\ UNCHANGED <<tempoVars, particles, nextId, ticks>>
           ELSE /\ ticks < maxTicks
                /\ \E dt \in dts : Tick(signal, now + dt)
                /\ framePending' = TRUE
                /\ orphanFrames' = orphanFrames - 1 + (IF framePending THEN 1 ELSE 0)
                /\ event' = [fn |-> "animate", outcome |-> "ticked", reported |-> "nothing"]
    /\ UNCHANGED <<driverVars, featVars, mounted, audioFile, isPlaying, analyser, dataArray,
                   loading, inputVars>>

OrphanFrame(maxTicks, dts) ==
    /\ mounted = "AudioVisualizer"
    /\ orphanFrames > 0
    /\ IF ~analyser \/ ~dataArray
           THEN /\ orphanFrames' = orphanFrames - 1
                /\ lastTick' = <<>>
                /\ event' = [fn |-> "animate", outcome |-> "returned", reported |-> "nothing"]
                /\ UNCHANGED <<tempoVars, particles, nextId, ticks, framePending>>
           ELSE /\ ticks < maxTicks
                /\ \E dt \in dts : Tick(signal, now + dt)
                /\ framePending' = TRUE
                /\ orphanFrames' = orphanFrames - 1 + (IF framePending THEN 1 ELSE 0)
                /\ event' = [fn |-> "animate", outcome |-> "ticked", reported |-> "nothing"]
    /\ UNCHANGED <<driverVars, featVars, mounted, audioFile, isPlaying, analyser, dataArray, loading,
                   inputVars>>

\* handleStop, from the X button or the audio's ended event
HandleStopKeepsAnalyser ==
    /\ mounted = "AudioVisualizer"
    /\ isPlaying
    /\ framePending' = FALSE
    /\ particles' = <<>>
    /\ DoReset
    /\ audioInfo' = InitialAudioInfo
    /\ isPlaying' = FALSE
    /\ audioFile' = FALSE
    /\ lastTick' = <<>>
    /\ event' = [fn |-> "handleStop", outcome |-> "stopped", reported |-> "nothing"]
    /\ UNCHANGED <<driverVars, featVars, mounted, analyser, dataArray, loading, orphanFrames, nextId,
                   ticks, inputVars>>

HandleStop ==
    /\ mounted = "AudioVisualizer"
    /\ isPlaying
    /\ framePending' = FALSE
    /\ particles' = <<>>
    /\ DoReset
    /\ audioInfo' = InitialAudioInfo
    /\ analyser' = FALSE
    /\ isPlaying' = FALSE
    /\ audioFile' = FALSE
    /\ lastTick' = <<>>
    /\ event' = [fn |-> "handleStop", outcome |-> "stopped", reported |-> "nothing"]
    /\ UNCHANGED <<driverVars, featVars, mounted, dataArray, loading, orphanFrames, nextId, ticks,
                   inputVars>>

(***************************************************************************)
(* Psych: particles.                                                       *)
(***************************************************************************)
PsychEnergies == {30, 31, 35}   \* audioProperties.energy, in hundredths

\* createParticles(count, ...) with count = floor(5 + energy * 15): life 0,
\* maxLife = 60 + energy * 120
PsychCreate(first, energy) ==
    [i \in 1..((500 + energy * 15) \div 100) |->
        [id |-> first + i - 1, life |-> 0,
         maxLife |-> Frac(60 * 100 + energy * 120, 100)]]

\* the filter callback's result: alpha = 1 - life / maxLife > 0
PsychStaysAlive(q) == q.life * q.maxLife.den < q.maxLife.num

RECURSIVE PsychFilterRange(_, _, _)
PsychFilterRange(ps, lo, hi) ==
    IF hi < lo THEN <<>>
    ELSE IF hi = lo
        THEN (IF PsychStaysAlive(AgeParticle(ps[lo])) THEN <<AgeParticle(ps[lo])>> ELSE <<>>)
    ELSE LET m == (lo + hi) \div 2
         IN  PsychFilterRange(ps, lo, m) \o PsychFilterRange(ps, m + 1, hi)

\* drawPsychedelicVisuals: particles are created when energy > 0.3 and the
\* random draw is below bassLevel * 0.5, then the filter runs
PsychFrame(maxTicks, maxSpawns, every) ==
    /\ mounted = "Psych"
    /\ ticks < maxTicks
    /\ \/ /\ changes < maxSpawns
          /\ ticks % every = 0
          /\ \E energy \in PsychEnergies :
                LET created == particles \o PsychCreate(nextId, energy)
                    kept == PsychFilterRange(created, 1, Len(created))
                IN  /\ energy > 30
                    /\ particles' = kept
                    /\ nextId' = nextId + Len(created) - Len(particles)
                    /\ lastTick' = <<[spawned |-> Len(created) - Len(particles),
                                      afterSpawn |-> Len(created), evicted |-> 0,
                                      expired |-> Len(created) - Len(kept),
                                      ids |-> [i \in 1..Len(created) |-> created[i].id],
                                      drawn |-> kept]>>
          /\ changes' = changes + 1
       \/ /\ particles' = PsychFilterRange(particles, 1, Len(particles))
          /\ lastTick' = <<[spawned |-> 0, afterSpawn |-> Len(particles), evicted |-> 0,
                            expired |-> Len(particles)
                                        - Len(PsychFilterRange(particles, 1, Len(particles))),
                            ids |-> [i \in 1..Len(particles) |-> particles[i].id],
                            drawn |-> PsychFilterRange(particles, 1, Len(particles))]>>
          /\ UNCHANGED <<nextId, changes>>
    /\ ticks' = ticks + 1
    /\ UNCHANGED <<tempoVars, driverVars, featVars, mounted, refVars, signal, seed, event>>

(***************************************************************************)
(* Psych: AudioAnalyzer.  Its dataArray has analyser.frequencyBinCount     *)
(* bins; the volume, a square root, is kept as its square.                 *)
(***************************************************************************)
PsychFftSize == 2048
PsychBins == PsychFftSize \div 2

SampleRates == {44100, 48000}

PsychFrames ==
    {[n |-> PsychBins, shape |-> sh, at |-> 0] : sh \in {"zeros", "full", "ramp"}}
    \cup [n : {PsychBins}, shape : {"bin"}, at : {0, 101, 102, 613, 614, PsychBins - 1}]

\* sum of the squares of d[lo..hi], by halves
RECURSIVE SumSqRange(_, _, _)
SumSqRange(d, lo, hi) ==
    IF hi < lo THEN 0
    ELSE IF hi = lo THEN d[lo] * d[lo]
    ELSE LET m == (lo + hi) \div 2
         IN  SumSqRange(d, lo, m) + SumSqRange(d, m + 1, hi)

\* calculateVolume: sqrt(sum of squares / length) / 255, squared
PsychVolumeSq(d) == Frac(SumSqRange(d, 1, Len(d)), Len(d) * 255 * 255)

\* Math.floor(length * 0.1) and Math.floor(length * 0.6)
PsychBassEnd(n) == n \div 10
PsychMidEnd(n) == (n * 6) \div 10

\* calculateBassLevel: (sum / bassEnd) / 255 over the bins before bassEnd
PsychBassLevel(d) ==
    Frac(SumRange(d, 1, PsychBassEnd(Len(d))), PsychBassEnd(Len(d)) * 255)

\* calculateMidLevel: the bins from midStart up to midEnd
PsychMidLevel(d) ==
    Frac(SumRange(d, PsychBassEnd(Len(d)) + 1, PsychMidEnd(Len(d))),
         (PsychMidEnd(Len(d)) - PsychBassEnd(Len(d))) * 255)

\* calculateTrebleLevel: the bins from trebleStart on
PsychTrebleLevel(d) ==
    Frac(SumRange(d, PsychMidEnd(Len(d)) + 1, Len(d)),
         (Len(d) - PsychMidEnd(Len(d))) * 255)

\* the first position of d[lo..hi] that holds the largest value, by halves
RECURSIVE FirstMax(_, _, _)
FirstMax(d, lo, hi) ==
    IF hi <= lo THEN lo
    ELSE LET m == (lo + hi) \div 2
             l == FirstMax(d, lo, m)
             r == FirstMax(d, m + 1, hi)
         IN  IF d[r] > d[l] THEN r ELSE l

\* calculateDominantFrequency: maxIndex * sampleRate / (2 * length), maxIndex
\* the first index whose value exceeds every earlier one and 0
PsychDominantFrequencyByLength(d, sr) ==
    LET maxIndex == IF Len(d) > 0 /\ d[FirstMax(d, 1, Len(d))] > 0
                        THEN FirstMax(d, 1, Len(d)) - 1 ELSE 0
    IN  Frac(maxIndex * sr, Len(d))

PsychDominantFrequency(d, sr) ==
    LET maxIndex == IF Len(d) > 0 /\ d[FirstMax(d, 1, Len(d))] > 0
                        THEN FirstMax(d, 1, Len(d)) - 1 ELSE 0
    IN  Frac(maxIndex * sr, 2 * Len(d))

\* calculateEnergy: (sum / length) / 255
PsychEnergy(d) == Frac(SumSeq(d), Len(d) * 255)

\* estimateBPM(energy): max(60, min(180, 120 + (energy - 0.5) * 60))
EstimateBPMNoOffset(energy) ==
    LET x == Frac(120 * energy.den + 60 * energy.num, energy.den)
    IN  IF x.num > 180 * x.den THEN Frac(180, 1)
        ELSE IF x.num < 60 * x.den THEN Frac(60, 1)
        ELSE x

EstimateBPM(energy) ==
    LET x == Frac(90 * energy.den + 60 * energy.num, energy.den)
    IN  IF x.num > 180 * x.den THEN Frac(180, 1)
        ELSE IF x.num < 60 * x.den THEN Frac(60, 1)
        ELSE x

\* what getAudioProperties returns while analyser or dataArray is null
NoAudioProperties ==
    [bpm |-> Frac(0, 1), volumeSq |-> Frac(0, 1), frequency |-> Frac(0, 1),
     bassLevel |-> Frac(0, 1), midLevel |-> Frac(0, 1), trebleLevel |-> Frac(0, 1),
     energy |-> Frac(0, 1)]

\* getAudioProperties with dataArray filled with d
GetAudioProperties(ready, d, sr) ==
    IF ~ready THEN NoAudioProperties
    ELSE [bpm |-> EstimateBPM(PsychEnergy(d)),
          volumeSq |-> PsychVolumeSq(d),
          frequency |-> PsychDominantFrequency(d, sr),
          bassLevel |-> PsychBassLevel(d),
          midLevel |-> PsychMidLevel(d),
          trebleLevel |-> PsychTrebleLevel(d),
          energy |-> PsychEnergy(d)]

\* the properties of each spectrum the analyser delivers, computed once
PsychAnalysis ==
    [fr \in PsychFrames |-> [sr \in SampleRates |-> GetAudioProperties(TRUE, Spectrum(fr), sr)]]

\* initialize(audioElement): the analyser and the dataArray are created
PsychInitialize ==
    /\ mounted = "Psych"
    /\ ~analyser
    /\ analyser' = TRUE
    /\ dataArray' = TRUE
    /\ UNCHANGED <<tempoVars, driverVars, featVars, mounted, audioFile, isPlaying, loading,
                   framePending, orphanFrames, poolVars, inputVars, event>>

\* getAudioProperties(): the analyser, when there is one, fills dataArray
PsychGetAudioProperties ==
    /\ mounted = "Psych"
    /\ IF ~analyser \/ ~dataArray
           THEN /\ audioProps' = <<GetAudioProperties(FALSE, <<>>, sampleRate)>>
                /\ UNCHANGED frame
           ELSE \E fr \in PsychFrames :
                    /\ frame' = fr
                    /\ audioProps' = <<PsychAnalysis[fr][sampleRate]>>
    /\ UNCHANGED <<tempoVars, driverVars, visVars, sampleRate, spawn, canvas, event>>

(***************************************************************************)
(* The extractor driven by a steady bass signal with a few departures.     *)
(***************************************************************************)
TempoInit ==
    /\ extractor = NewExtractor
    /\ now \in StartTimes
    /\ lastOp = NoOp
    /\ audioInfo = InitialAudioInfo
    /\ allPeaks = <<>>
    /\ twin = <<>>

Init ==
    /\ TempoInit
    /\ beat \in Beats
    /\ odd = 0
    /\ calls = 0
    /\ mounted = "none"
    /\ VisIdle
    /\ FeatIdle
    /\ canvas = InitialCanvas
    /\ sampleRate = 44100
    /\ signal = "silent"
    /\ seed = 0

\* a beat of the steady signal: bass above the threshold, one period later
Beat ==
    /\ calls < MaxCalls
    /\ DoDetectBPM(Frac(PeakThreshold + 1, 1), now + beat)
    /\ calls' = calls + 1
    /\ UNCHANGED <<beat, odd, visVars, featVars, event>>

\* a loud sample off the beat
OffBeat ==
    /\ calls < MaxCalls
    /\ odd < MaxOdd
    /\ \E dt \in OddDts : DoDetectBPM(Frac(PeakThreshold + 1, 1), now + dt)
    /\ odd' = odd + 1
    /\ calls' = calls + 1
    /\ UNCHANGED <<beat, visVars, featVars, event>>

\* a beat that stays at the threshold
MissedBeat ==
    /\ calls < MaxCalls
    /\ odd < MaxOdd
    /\ DoDetectBPM(Frac(PeakThreshold, 1), now + beat)
    /\ odd' = odd + 1
    /\ calls' = calls + 1
    /\ UNCHANGED <<beat, visVars, featVars, event>>

\* a beat delivered as a spectrum to analyzeAudio
Analyze ==
    /\ calls < MaxCalls
    /\ odd < MaxOdd
    /\ \E sig \in {"silent", "bass"} : DoAnalyzeAudio(sig, now + beat)
    /\ odd' = odd + 1
    /\ calls' = calls + 1
    /\ UNCHANGED <<beat, visVars, featVars, event>>

CallReset ==
    /\ calls < MaxCalls
    /\ odd < MaxOdd
    /\ DoReset
    /\ odd' = odd + 1
    /\ calls' = calls + 1
    /\ UNCHANGED <<audioInfo, beat, visVars, featVars, event>>

Next == Beat \/ OffBeat \/ MissedBeat \/ Analyze \/ CallReset

Spec == Init /\ [][Next]_vars

(***************************************************************************)
(* The particle pools over many ticks: AudioVisualizer playing one file    *)
(* whose spectrum changes a few times, or Psych creating particles a few   *)
(* times.                                                                  *)
(***************************************************************************)
PoolInit ==
    /\ TempoInit
    /\ beat = 500
    /\ odd = 0
    /\ calls = 0
    /\ VisIdle
    /\ FeatIdle
    /\ canvas = InitialCanvas
    /\ sampleRate = 44100
    /\ \/ /\ mounted = "AudioVisualizer"
          /\ signal \in Signals
          /\ seed \in 0..(Len(LifeDraws) - 1)
       \/ /\ mounted = "Psych"
          /\ signal = "silent"
          /\ seed = 0

PoolNext ==
    \/ HandleFileSelect(1)
    \/ MetadataLoaded(MaxPoolTicks, {TickMs})
    \/ AnimationFrame(MaxPoolTicks, {TickMs})
    \/ ChangeSignal(MaxChanges, ChangeEvery)
    \/ PsychFrame(MaxPsychTicks, MaxPsychSpawns, PsychSpawnEvery)

SpecPool == PoolInit /\ [][PoolNext]_vars

(***************************************************************************)
(* The lifecycle of AudioVisualizer: files selected, started and stopped.  *)
(***************************************************************************)
VisInit ==
    /\ TempoInit
    /\ beat = 500
    /\ odd = 0
    /\ calls = 0
    /\ mounted = "AudioVisualizer"
    /\ VisIdle
    /\ FeatIdle
    /\ canvas = InitialCanvas
    /\ sampleRate = 44100
    /\ signal \in Signals
    /\ seed = 0

VisNext ==
    \/ HandleFileSelect(MaxLoads)
    \/ HandleFileSelectNoAudio
    \/ MetadataLoadedShort
    \/ MetadataLoaded(MaxVisTicks, VisDts)
    \/ AnimationFrame(MaxVisTicks, VisDts)
    \/ OrphanFrame(MaxVisTicks, VisDts)
    \/ ChangeSignal(MaxVisChanges, 1)
    \/ HandleStop

SpecVis == VisInit /\ [][VisNext]_vars

(***************************************************************************)
(* AudioVisualizer: the motion of the particles while a file plays.        *)
(* Positions, velocities and hues are exact fractions in lowest terms; the *)
(* factors 0.975, 0.15, 0.4, 0.3 and 0.5 are taken at their decimal value. *)
(***************************************************************************)
Abs(n) == IF n < 0 THEN -n ELSE n

\* the greatest common divisor, by Euclid's algorithm (each remainder is
\* evaluated once)
RECURSIVE GCD(_, _)
GCD(a, b) == IF b = 0 THEN a ELSE CHOOSE g \in {GCD(b, r) : r \in {a % b}} : TRUE

\* n / d in lowest terms (d > 0)
Lowest(n, d) == Frac(n \div GCD(Abs(n), d), d \div GCD(Abs(n), d))

\* product and sum of two fractions in lowest terms
Product(r, q) ==
    Frac((r.num \div GCD(Abs(r.num), q.den)) * (q.num \div GCD(Abs(q.num), r.den)),
         (r.den \div GCD(Abs(q.num), r.den)) * (q.den \div GCD(Abs(r.num), q.den)))

Sum(r, q) ==
    Lowest(r.num * (q.den \div GCD(r.den, q.den)) + q.num * (r.den \div GCD(r.den, q.den)),
           (r.den \div GCD(r.den, q.den)) * q.den)

\* the same of two expressions, each evaluated once, and r < k for a whole k
FracMul(r, q) == CHOOSE p \in {Product(a, b) : a \in {r}, b \in {q}} : TRUE

FracAdd(r, q) == CHOOSE p \in {Sum(a, b) : a \in {r}, b \in {q}} : TRUE

FracLt(r, k) == r.num < k * r.den

\* h % 360: the remainder has the sign of h
Rem360(h) ==
    LET turns == IF h.num >= 0 THEN h.num \div (360 * h.den)
                 ELSE -((-h.num) \div (360 * h.den))
    IN  Lowest(h.num - turns * 360 * h.den, h.den)

\* Math.random() as a fraction, the k-th call
Random(k) == Lowest(RandomDraw(k), RandomScale)

\* Math.cos(angle) and Math.sin(angle) for angle = Math.random() * Math.PI * 2
\* at the quarter turns
QuarterTurns ==
    <<[cos |-> 1, sin |-> 0], [cos |-> 0, sin |-> 1],
      [cos |-> -1, sin |-> 0], [cos |-> 0, sin |-> -1]>>

Direction(k) == QuarterTurns[(k % Len(QuarterTurns)) + 1]

\* Math.pow(bass / 255, 0.5) for the bass levels 0 and 255
RootOfLevel(bass) == IF bass.num = 255 * bass.den THEN Frac(1, 1) ELSE Frac(0, 1)

\* bpmSpeedMultiplier = (bpm / 120) * 0.3 and baseSpeed = (mid / 255) * 6 + 1.5
BpmSpeedMultiplier(bpm) == Lowest(bpm, 400)
BaseSpeed(mid) == FracAdd(FracMul(Lowest(mid.num, mid.den), Frac(2, 85)), Frac(3, 2))

\* explosionForce = Math.pow(bass / 255, 0.5) * 6 * bpmSpeedMultiplier
ExplosionForce(info) ==
    FracMul(FracMul(RootOfLevel(info.bass), Frac(6, 1)), BpmSpeedMultiplier(info.bpm))

\* direction * speed * (0.5 + random * 1.5) + (random - 0.5) * explosionForce
Velocity(dir, info, k1, k2) ==
    FracAdd(FracMul(FracMul(Frac(dir, 1),
                            FracMul(BaseSpeed(info.mid), BpmSpeedMultiplier(info.bpm))),
                    FracAdd(Frac(1, 2), FracMul(Random(k1), Frac(3, 2)))),
            FracMul(FracAdd(Random(k2), Frac(-1, 2)), ExplosionForce(info)))

\* the particle literal of createParticles with its position, velocity and
\* hue, the k-th particle ever created (size, alpha, type, scale, rotation,
\* saturation and lightness are left out)
SpawnParticle(k, sd, info, cv) ==
    [id |-> k,
     life |-> 0,
     maxLife |-> NewParticle(k, sd).maxLife,
     x |-> FracMul(Random(sd + k + 1), Frac(cv.width, 1)),
     y |-> FracMul(Random(sd + k + 2), Frac(cv.height, 1)),
     vx |-> Velocity(Direction(sd + k).cos, info, sd + k, sd + k + 1),
     vy |-> Velocity(Direction(sd + k).sin, info, sd + k + 2, sd + k),
     hue |-> LET h == GetFrequencyColor(info.bass, info.mid, info.treble, sd + k).hue
             IN  Lowest(h.num, h.den)]

\* the position after the four wrap-around tests, for a bound of width or height
Wrap(p, bound) ==
    LET low == IF FracLt(p, -100) THEN Frac(bound + 100, 1) ELSE p
    IN  IF FracGt(low, bound + 100) THEN Frac(-100, 1) ELSE low

\* the update of one particle in the filter callback, bpmMovementMultiplier
\* being (bpm / 120) * 0.4
MoveParticleClamps(q, bpm, cv) ==
    LET m == Lowest(bpm, 300)
        x1 == FracAdd(q.x, FracMul(q.vx, m))
        y1 == FracAdd(q.y, FracMul(q.vy, m))
    IN  [AgeParticle(q) EXCEPT
            !.x = IF FracLt(x1, -100) THEN Frac(-100, 1)
                  ELSE IF FracGt(x1, cv.width + 100) THEN Frac(cv.width + 100, 1) ELSE x1,
            !.y = IF FracLt(y1, -100) THEN Frac(-100, 1)
                  ELSE IF FracGt(y1, cv.height + 100) THEN Frac(cv.height + 100, 1) ELSE y1,
            !.vx = FracMul(q.vx, Frac(39, 40)),
            !.vy = FracAdd(FracMul(q.vy, Frac(39, 40)), FracMul(Frac(3, 20), m)),
            !.hue = Rem360(FracAdd(q.hue, FracMul(Frac(1, 2), m)))]

MoveParticleHueUnwrapped(q, bpm, cv) ==
    LET m == Lowest(bpm, 300)
    IN  [AgeParticle(q) EXCEPT
            !.x = Wrap(FracAdd(q.x, FracMul(q.vx, m)), cv.width),
            !.y = Wrap(FracAdd(q.y, FracMul(q.vy, m)), cv.height),
            !.vx = FracMul(q.vx, Frac(39, 40)),
            !.vy = FracAdd(FracMul(q.vy, Frac(39, 40)), FracMul(Frac(3, 20), m)),
            !.hue = FracAdd(q.hue, FracMul(Frac(1, 2), m))]

MoveParticle(q, bpm, cv) ==
    LET m == Lowest(bpm, 300)
    IN  [AgeParticle(q) EXCEPT
            !.x = Wrap(FracAdd(q.x, FracMul(q.vx, m)), cv.width),
            !.y = Wrap(FracAdd(q.y, FracMul(q.vy, m)), cv.height),
            !.vx = FracMul(q.vx, Frac(39, 40)),
            !.vy = FracAdd(FracMul(q.vy, Frac(39, 40)), FracMul(Frac(3, 20), m)),
            !.hue = Rem360(FracAdd(q.hue, FracMul(Frac(1, 2), m)))]

\* the particles pushed by the loop of createParticles, the lo-th to the hi-th
\* ever created, by halves
RECURSIVE SpawnRange(_, _, _, _, _)
SpawnRange(lo, hi, sd, info, cv) ==
    IF hi < lo THEN <<>>
    ELSE IF hi = lo THEN <<SpawnParticle(lo, sd, info, cv)>>
    ELSE LET m == (lo + hi) \div 2
         IN  SpawnRange(lo, m, sd, info, cv) \o SpawnRange(m + 1, hi, sd, info, cv)

\* the update applied by the filter callback to every element, by halves
RECURSIVE MoveRange(_, _, _, _, _)
MoveRange(ps, lo, hi, bpm, cv) ==
    IF hi < lo THEN <<>>
    ELSE IF hi = lo THEN <<MoveParticle(ps[lo], bpm, cv)>>
    ELSE LET m == (lo + hi) \div 2
         IN  MoveRange(ps, lo, m, bpm, cv) \o MoveRange(ps, m + 1, hi, bpm, cv)

\* the body of animate past its guard, with Date.now() = t, the motion of
\* the particles followed: analyzeAudio, setAudioInfo, createParticles, the
\* particle filter
MotionTick(sig, t) ==
    \E info \in {AudioInfoOf(extractor, Analysis[sig], t)} :
    \E born \in {SpawnRange(nextId, nextId + ParticleCount(info) - 1, seed, info, canvas)} :
    \E created \in {BoundPool(particles \o born)} :
    \E moved \in {MoveRange(created, 1, Len(created), info.bpm, canvas)} :
    \E kept \in {SelectSeq(moved, StaysAlive)} :
        /\ DoAnalyzeAudio(sig, t)
        /\ particles' = kept
        /\ nextId' = nextId + Len(born)
        /\ ticks' = ticks + 1
        /\ lastTick' = <<[spawned |-> Len(born), afterSpawn |-> Len(created),
                           evicted |-> Len(particles) + Len(born) - Len(created),
                           expired |-> Len(created) - Len(kept),
                           ids |-> [i \in 1..Len(created) |-> created[i].id],
                           drawn |-> moved,
                           born |-> born,
                           before |-> created]>>

\* the animation frame fires while a file plays: animate runs past its guard
\* and requests the next frame
MotionFrame(maxTicks) ==
    /\ mounted = "AudioVisualizer"
    /\ framePending
    /\ analyser /\ dataArray
    /\ ticks < maxTicks
    /\ MotionTick(signal, now + TickMs)
    /\ framePending' = TRUE
    /\ event' = [fn |-> "animate", outcome |-> "ticked", reported |-> "nothing"]
    /\ UNCHANGED <<driverVars, featVars, mounted, audioFile, isPlaying, analyser, dataArray,
                   loading, orphanFrames, inputVars>>

\* the sizes of the window
Viewports == {InitialCanvas, [width |-> 300, height |-> 200]}

\* handleResize: the canvas takes the size of the window
HandleResizeCancelsFrame ==
    /\ mounted = "AudioVisualizer"
    /\ \E cv \in Viewports \ {canvas} : canvas' = cv
    /\ framePending' = FALSE
    /\ lastTick' = <<>>
    /\ event' = [fn |-> "handleResize", outcome |-> "resized", reported |-> "nothing"]
    /\ UNCHANGED <<tempoVars, driverVars, frame, sampleRate, audioProps, spawn, mounted,
                   audioFile, isPlaying, analyser, dataArray, loading, orphanFrames,
                   particles, nextId, ticks, inputVars>>

HandleResize ==
    /\ mounted = "AudioVisualizer"
    /\ \E cv \in Viewports \ {canvas} : canvas' = cv
    /\ lastTick' = <<>>
    /\ event' = [fn |-> "handleResize", outcome |-> "resized", reported |-> "nothing"]
    /\ UNCHANGED <<tempoVars, driverVars, frame, sampleRate, audioProps, spawn, mounted,
                   refVars, particles, nextId, ticks, inputVars>>

\* particles in flight, created some ticks ago: near the left, the top and
\* the right and bottom margins and moving outwards, and near the middle
InFlight(cv, sd) ==
    LET flying(k, x, y, vx, vy, hue) ==
            [id |-> k, life |-> 30, maxLife |-> NewParticle(k, sd).maxLife,
             x |-> x, y |-> y, vx |-> vx, vy |-> vy, hue |-> hue]
    IN  <<flying(0, Frac(-99, 1), Frac(50, 1), Frac(-5, 1), Frac(0, 1), Frac(3599, 10)),
          flying(1, Frac(70, 1), Frac(-199, 2), Frac(0, 1), Frac(-2, 1), Frac(98, 5)),
          flying(2, Frac(cv.width + 99, 1), Frac(cv.height + 99, 1), Frac(5, 1), Frac(5, 1),
                 Frac(280, 1)),
          flying(3, Frac(150, 1), Frac(100, 1), Frac(1, 2), Frac(-1, 2), Frac(120, 1))>>

MotionSignals == {"silent", "loud", "mid", "treble"}

\* a file is playing: animate has requested a frame
MotionInit ==
    /\ TempoInit
    /\ beat = 500
    /\ odd = 0
    /\ calls = 0
    /\ mounted = "AudioVisualizer"
    /\ audioFile = TRUE
    /\ isPlaying = TRUE
    /\ analyser = TRUE
    /\ dataArray = TRUE
    /\ loading = 0
    /\ framePending = TRUE
    /\ orphanFrames = 0
    /\ FeatIdle
    /\ sampleRate = 44100
    /\ canvas \in Viewports
    /\ signal \in MotionSignals
    /\ seed \in 0..(Len(RandomDraws) - 1)
    /\ particles \in {<<>>, InFlight(canvas, seed)}
    /\ nextId = Len(particles)
    /\ ticks = 0
    /\ lastTick = <<>>
    /\ changes = 0

MotionNext ==
    \/ MotionFrame(MaxMotionTicks)
    \/ HandleResize

SpecMotion == MotionInit /\ [][MotionNext]_vars

(***************************************************************************)
(* The analysers and createParticles on given inputs: spectra of several   *)
(* lengths given to the extractor, band levels given to createParticles,   *)
(* Psych's AudioAnalyzer before and after initialize.                      *)
(***************************************************************************)
BassLevels == {Frac(0, 1), Frac(255, 8), Frac(200, 1), Frac(201, 1), Frac(255, 1)}
MidLevels == {Frac(0, 1), Frac(180, 1), Frac(181, 1), Frac(255, 1)}
TrebleLevels == {Frac(0, 1), Frac(160, 1), Frac(161, 1), Frac(255, 1)}

\* analyzeAudio(frequencyData) on one of the spectra
AnalyzeFrame ==
    /\ mounted = "none"
    /\ calls < MaxFeatCalls
    /\ \E fr \in ExtractorFrames :
            /\ frame' = fr
            /\ DoAnalyzeWith(ExtractorAnalysis[fr], now + beat)
    /\ calls' = calls + 1
    /\ UNCHANGED <<beat, odd, visVars, sampleRate, audioProps, spawn, canvas, event>>

\* createParticles(audioInfo) on given band levels: the particles are pushed
\* and the pool is bounded; the colour kept is the first new particle's
CreateParticlesCall ==
    /\ mounted = "AudioVisualizer"
    /\ calls < MaxSpawnCalls
    /\ \E b \in BassLevels, m \in MidLevels, t \in TrebleLevels :
            LET info == [bpm |-> DefaultBPM, bass |-> b, mid |-> m, treble |-> t,
                         volume |-> Frac(0, 1)]
            IN  /\ particles' = CreateParticles(particles, info, nextId, seed)
                /\ nextId' = nextId + ParticleCount(info)
                /\ spawn' = <<[bass |-> b, mid |-> m, treble |-> t,
                               count |-> ParticleCount(info),
                               color |-> GetFrequencyColor(b, m, t, seed + nextId)]>>
    /\ calls' = calls + 1
    /\ UNCHANGED <<tempoVars, beat, odd, mounted, refVars, ticks, lastTick, inputVars,
                   frame, sampleRate, audioProps, canvas, event>>

FeatInit ==
    /\ TempoInit
    /\ beat = 500
    /\ odd = 0
    /\ calls = 0
    /\ VisIdle
    /\ FeatIdle
    /\ canvas = InitialCanvas
    /\ signal = "silent"
    /\ \/ /\ mounted = "none"
          /\ seed = 0
          /\ sampleRate = 44100
       \/ /\ mounted = "AudioVisualizer"
          /\ now = 0
          /\ seed \in 0..(Len(RandomDraws) - 1)
          /\ sampleRate = 44100
       \/ /\ mounted = "Psych"
          /\ now = 0
          /\ seed = 0
          /\ sampleRate \in SampleRates

FeatNext ==
    \/ AnalyzeFrame
    \/ CreateParticlesCall
    \/ PsychInitialize
    \/ PsychGetAudioProperties

SpecFeat == FeatInit /\ [][FeatNext]_vars

(***************************************************************************)
(* Properties of the tempo estimator.                                      *)
(***************************************************************************)
IsCall(o) == o.op \in {"detectBPM", "analyzeAudio"}

Last(s) == s[Len(s)]

\* the last n entries of s, in order
LastN(s, n) == IF Len(s) <= n THEN s ELSE SubSeq(s, Len(s) - n + 1, Len(s))

\* the gaps between consecutive entries of s
Gaps(s) == [i \in 1..(IF Len(s) = 0 THEN 0 ELSE Len(s) - 1) |-> s[i + 1] - s[i]]

\* every gap between consecutive registered peaks is d
SteadyPeaks(d) == \A i \in 1..(Len(allPeaks) - 1) : allPeaks[i + 1] - allPeaks[i] = d

\* C1: after any sequence of detectBPM and reset calls the BPM estimate, as
\* held and as returned by the last call, lies in [60,200].
C1_BPMInRange ==
    /\ extractor.currentBPM >= 60 /\ extractor.currentBPM <= 200
    /\ IsCall(lastOp) => lastOp.ret >= 60 /\ lastOp.ret <= 200

\* a peak was registered with 4 intervals held and a candidate outside [60,200]
C1_Witness ==
    /\ IsCall(lastOp)
    /\ allPeaks # <<>> /\ Last(allPeaks) = lastOp.time
    /\ Len(extractor.intervals) >= 4
    /\ 120000 * Len(extractor.intervals) >= 401 * SumRange(extractor.intervals, 1, Len(extractor.intervals))

\* C5: once five or more peaks, each exactly 500 ms after the one before, have
\* been registered on a fresh or reset estimator, the BPM estimate is 120, and
\* it is 120 after every later peak of that stream.
C5_SteadyBeatIs120 ==
    (Len(allPeaks) >= 5 /\ SteadyPeaks(500)) => extractor.currentBPM = 120

\* six peaks 500 ms apart have been registered after a reset
C5_Witness ==
    /\ twin # <<>>
    /\ Len(allPeaks) >= 6
    /\ SteadyPeaks(500)
    /\ lastOp.op = "detectBPM" /\ Last(allPeaks) = lastOp.time

\* the time of the last registered peak, 0 when none was registered since
\* construction or reset()
LastPeakOrZero == IF allPeaks = <<>> THEN 0 ELSE Last(allPeaks)

\* C6 as stated: a call registers a peak exactly when bass exceeds 180 and at
\* least 200 ms have elapsed since the last registered peak.
C6_AtLeastRefractory ==
    [][(IsCall(lastOp') /\ allPeaks # <<>>) =>
            (Pushed(extractor, extractor') <=>
                (FracGt(lastOp'.bass, 180) /\ lastOp'.time - Last(allPeaks) >= 200))]_vars

\* C6 amended: a call registers a peak exactly when bass exceeds 180 and more
\* than 200 ms have elapsed since the last registered peak (since time 0 when
\* no peak has been registered since construction or reset).
C6_MoreThanRefractory ==
    [][IsCall(lastOp') =>
            (Pushed(extractor, extractor') <=>
                (FracGt(lastOp'.bass, 180) /\ lastOp'.time - LastPeakOrZero > 200))]_vars

\* a sample above the threshold arrived exactly 200 ms after a registered peak
C6_Witness ==
    /\ IsCall(lastOp)
    /\ FracGt(lastOp.bass, 180)
    /\ allPeaks # <<>>
    /\ lastOp.time - Last(allPeaks) = 200

\* the registered peak of this step left n intervals with sum s
MeanInRange(n, s, lo, hi) == lo * n <= s /\ s <= hi * n

\* C7 as stated: on a registered peak with at least 4 intervals held, the BPM
\* is retained unless the mean of the held intervals lies in [300,1000] ms.
C7_MeanIn300To1000 ==
    [][(IsCall(lastOp') /\ Pushed(extractor, extractor') /\ Len(extractor'.intervals) >= 4
            /\ ~MeanInRange(Len(extractor'.intervals),
                            SumRange(extractor'.intervals, 1, Len(extractor'.intervals)), 300, 1000))
        => extractor'.currentBPM = extractor.currentBPM]_vars

\* 60000 / (s / n), rounded to the nearest integer, lies in [60,200]:
\* 59.5 <= 60000 n / s < 200.5
RoundedInRange(n, s) == 119 * s <= 120000 * n /\ 120000 * n < 401 * s

\* C7 amended: on a registered peak with at least 4 intervals held, the BPM is
\* retained unless the candidate 60000 / mean, rounded to the nearest integer,
\* lies in [60,200].
C7_RoundedCandidateInRange ==
    [][(IsCall(lastOp') /\ Pushed(extractor, extractor') /\ Len(extractor'.intervals) >= 4
            /\ ~RoundedInRange(Len(extractor'.intervals),
                               SumRange(extractor'.intervals, 1, Len(extractor'.intervals))))
        => extractor'.currentBPM = extractor.currentBPM]_vars

\* a peak was registered with at least 4 intervals held whose mean is too long
\* for a rounded candidate of 60 or more, and the previous BPM was retained
C7_Witness ==
    /\ IsCall(lastOp)
    /\ allPeaks # <<>> /\ Last(allPeaks) = lastOp.time
    /\ Len(extractor.intervals) >= 4
    /\ 119 * SumRange(extractor.intervals, 1, Len(extractor.intervals))
            > 120000 * Len(extractor.intervals)
    /\ extractor.currentBPM = 60

\* C8: the BPM estimate changes only in a call that registers a peak and holds
\* at least 4 intervals after appending the new one (reset() returns it to
\* 120); so it is 120 until the fifth peak registered since construction or
\* reset().
C8_ChangesOnlyWithFourIntervals ==
    /\ [](Len(allPeaks) < 5 => extractor.currentBPM = 120)
    /\ [][extractor'.currentBPM # extractor.currentBPM =>
            \/ lastOp'.op = "reset" /\ extractor'.currentBPM = 120
            \/ IsCall(lastOp') /\ Pushed(extractor, extractor')
                  /\ Len(extractor'.intervals) >= 4]_vars

\* the fifth peak since construction or reset was registered and changed the BPM
C8_Witness ==
    /\ Len(allPeaks) = 5
    /\ IsCall(lastOp) /\ Last(allPeaks) = lastOp.time
    /\ extractor.currentBPM # 120

\* C9: the interval history holds at most 8 entries and the peak history at
\* most 10, each the most recent ones in arrival order, and every registered
\* peak is in the peak history whether or not the BPM was updated.
C9_BoundedHistories ==
    /\ Len(extractor.intervals) <= 8
    /\ Len(extractor.peaks) <= 10
    /\ extractor.peaks = LastN(allPeaks, 10)
    /\ extractor.intervals = LastN(Gaps(allPeaks), 8)

\* an eleventh peak was registered, evicting the oldest peak and interval,
\* with the BPM left as it was
C9_Witness ==
    /\ Len(allPeaks) >= 11
    /\ Last(allPeaks) = lastOp.time
    /\ extractor.currentBPM = 120
    /\ ~SteadyPeaks(500)

\* C10: reset() sets BPM to 120 and empties both histories, and every call
\* after it returns what the same call, at the same time, returns on an
\* extractor constructed at the moment of the reset.
C10_ResetIsFresh ==
    /\ lastOp.op = "reset" =>
            /\ extractor.currentBPM = 120
            /\ extractor.peaks = <<>>
            /\ extractor.intervals = <<>>
    /\ (twin # <<>> /\ IsCall(lastOp)) => twin[1].ret = lastOp.ret
    /\ (twin # <<>> /\ lastOp.op = "analyzeAudio") => twin[1].info = audioInfo

\* reset() was called and the fifth peak registered since moved the BPM off 120
C10_Witness ==
    /\ twin # <<>>
    /\ Len(allPeaks) >= 5
    /\ IsCall(lastOp)
    /\ extractor.currentBPM # 120

(***************************************************************************)
(* Properties of the particle pools.                                       *)
(***************************************************************************)
\* C2: after createParticles in every tick, and so at the end of every tick,
\* the pool of AudioVisualizer holds at most 250 particles.
C2_PoolWithinCapacity ==
    mounted = "AudioVisualizer" =>
        /\ Len(particles) <= 250
        /\ lastTick # <<>> => lastTick[1].afterSpawn <= 250

\* a tick's createParticles pushed the pool past 250 and the bound evicted
C2_Witness ==
    /\ mounted = "AudioVisualizer"
    /\ lastTick # <<>>
    /\ lastTick[1].evicted > 0
    /\ lastTick[1].spawned > 1
    /\ lastTick[1].afterSpawn = 250

\* the particles of pool ps, less the first ev, that are younger than their
\* maxLife after one more tick, each one tick older
Survivors(ps, ev) ==
    LET rest == IF ev >= Len(ps) THEN <<>> ELSE SubSeq(ps, ev + 1, Len(ps))
        young == SelectSeq(rest, LAMBDA q : (q.life + 1) * q.maxLife.den < q.maxLife.num)
    IN  [i \in 1..Len(young) |-> [young[i] EXCEPT !.life = young[i].life + 1]]

\* C3: a tick makes every particle of the pool exactly one tick older; a
\* particle leaves the pool by expiry on the first tick at whose end its age
\* is at least its maxLife: until then it stays unless the capacity bound
\* evicted it, and no particle of the pool has reached its maxLife.
C3_AgeAndExpiry ==
    /\ [](\A i \in 1..Len(particles) : particles[i].life * particles[i].maxLife.den < particles[i].maxLife.num)
    /\ [][ticks' # ticks =>
            LET old == Survivors(particles, lastTick'[1].evicted)
            IN  /\ Len(particles') >= Len(old)
                /\ SubSeq(particles', 1, Len(old)) = old
                /\ \A j \in (Len(old) + 1)..Len(particles') :
                        particles'[j].id >= nextId /\ particles'[j].life = 1]_vars

\* in one tick of AudioVisualizer some particles expired, others were evicted
\* by the bound, and others stayed
C3_Witness ==
    /\ mounted = "AudioVisualizer"
    /\ lastTick # <<>>
    /\ lastTick[1].expired > 0
    /\ lastTick[1].evicted > 0
    /\ \E i \in 1..Len(particles) : particles[i].life > 1

\* C11: when createParticles makes the pool longer than its capacity, the
\* pool it leaves holds exactly maxParticles particles: the most recently
\* inserted ones of the old pool followed by the new ones, in insertion order.
C11_KeepsMostRecent ==
    [][(ticks' # ticks /\ mounted = "AudioVisualizer") =>
            LET all == [i \in 1..Len(particles) |-> particles[i].id]
                       \o [i \in 1..lastTick'[1].spawned |-> nextId + i - 1]
            IN  Len(all) > maxParticles =>
                    /\ Len(lastTick'[1].ids) = maxParticles
                    /\ lastTick'[1].ids
                            = SubSeq(all, Len(all) - maxParticles + 1, Len(all))]_vars

\* a tick whose 17 new particles pushed the 17 oldest out of a full pool
C11_Witness ==
    /\ mounted = "AudioVisualizer"
    /\ lastTick # <<>>
    /\ lastTick[1].spawned = 17
    /\ lastTick[1].evicted = 17
    /\ Len(lastTick[1].ids) = maxParticles
    /\ lastTick[1].ids[maxParticles] = nextId - 1
    /\ lastTick[1].ids[1] > 0

(***************************************************************************)
(* Properties of the lifecycle.                                            *)
(***************************************************************************)
\* C4: handleStop cancels the frame requested, empties the particles and
\* resets the tempo state in one step; no tick runs while stopped, and until
\* the next start the particles stay empty and the tempo state stays initial.
C4_StopIsAtomic ==
    /\ [](~isPlaying => particles = <<>> /\ extractor = NewExtractor /\ ~framePending)
    /\ [][(isPlaying /\ ~isPlaying') =>
            (~framePending' /\ particles' = <<>> /\ extractor' = NewExtractor)]_vars
    /\ [][ticks' # ticks => isPlaying']_vars

\* stopped after ticks that created particles and registered a peak, with an
\* animation frame of an earlier start still pending
C4_Witness ==
    /\ ~isPlaying
    /\ lastOp.op = "reset"
    /\ ticks >= 2
    /\ nextId > 2
    /\ orphanFrames > 0


(***************************************************************************)
(* Properties of the analysers and of createParticles on given inputs.     *)
(***************************************************************************)
\* the extractor's last call was analyzeAudio on the spectrum frame
Analysed == mounted = "none" /\ lastOp.op = "analyzeAudio"

\* Psych's analyzer last filled its dataArray with the spectrum frame
PsychAnalysed == mounted = "Psych" /\ audioProps # <<>> /\ frame.shape # "none"

\* a number that is defined (not 0/0) and is 0, is not 0, lies in [0, k]
IsZero(r) == r.den # 0 /\ r.num = 0
NonZero(r) == r.den # 0 /\ r.num # 0
Within(r, k) == r.den > 0 /\ r.num >= 0 /\ r.num <= k * r.den

PowerOfTwo(n) == \E k \in 0..12 : n = 2 ^ k

ExactlyOneNonZero(a, b, c) ==
    \/ NonZero(a) /\ IsZero(b) /\ IsZero(c)
    \/ IsZero(a) /\ NonZero(b) /\ IsZero(c)
    \/ IsZero(a) /\ IsZero(b) /\ NonZero(c)

\* C12: for an empty or undersized spectrum (shorter than the last band
\* boundary, 256) the bands and the volume are each the number 0, and so are
\* the energy and the dominant frequency of an analyzer without a spectrum.
C12_EmptyOrUndersizedIsZero ==
    /\ (Analysed /\ frame.n < 256) =>
            /\ IsZero(audioInfo.bass) /\ IsZero(audioInfo.mid) /\ IsZero(audioInfo.treble)
            /\ IsZero(audioInfo.volume)
    /\ (mounted = "Psych" /\ audioProps # <<>> /\ frame.n < PsychBins) =>
            /\ IsZero(audioProps[1].energy) /\ IsZero(audioProps[1].frequency)
            /\ IsZero(audioProps[1].volumeSq)

BinsIn(lo, hi, n) == IF (IF hi < n THEN hi ELSE n) > lo THEN (IF hi < n THEN hi ELSE n) - lo ELSE 0
SumIn(d, lo, hi) == SumRange(d, lo + 1, IF hi < Len(d) THEN hi ELSE Len(d))
MaxMagnitude(d) == IF Len(d) = 0 THEN 0 ELSE d[FirstMax(d, 1, Len(d))]

\* r is the arithmetic mean of the magnitudes of d in [lo, hi), each divided
\* by unit, and is at most the largest magnitude
IsMeanOf(r, d, lo, hi, unit) ==
    /\ BinsIn(lo, hi, Len(d)) > 0 =>
            /\ r.den > 0
            /\ r.den % unit = 0
            /\ r.num * BinsIn(lo, hi, Len(d)) = (r.den \div unit) * SumIn(d, lo, hi)
    /\ r.den > 0 /\ r.num >= 0 /\ r.num * unit <= MaxMagnitude(d) * r.den

FracLeq(r, q) == r.num * q.den <= q.num * r.den

\* floor((level / 255) * weight): the whole part of level * weight / 255
WholePart(level, weight) == (level.num * weight) \div (level.den * 255)

\* C15: the number of particles createParticles makes from the band levels
\* is max(1, floor(bass/255*8) + floor(mid/255*5) + floor(treble/255*3) + 1);
\* it lies between 1 and 17, and a call whose band levels are each at least
\* those of the call before makes at least as many particles.
C15_ParticleCount ==
    /\ [](spawn # <<>> =>
            LET sum == WholePart(spawn[1].bass, 8) + WholePart(spawn[1].mid, 5)
                       + WholePart(spawn[1].treble, 3) + 1
            IN  /\ spawn[1].count = (IF sum > 1 THEN sum ELSE 1)
                /\ spawn[1].count \in 1..17)
    /\ [][(/\ spawn # <<>>
           /\ spawn' # <<>>
           /\ FracLeq(spawn[1].bass, spawn'[1].bass)
           /\ FracLeq(spawn[1].mid, spawn'[1].mid)
           /\ FracLeq(spawn[1].treble, spawn'[1].treble))
                => spawn'[1].count >= spawn[1].count]_vars
    /\ [][spawn' # spawn => nextId' - nextId = spawn'[1].count]_vars

\* a second call at the highest levels made 17 particles after a first call
\* at lower levels made fewer
C15_Witness ==
    /\ spawn # <<>>
    /\ calls = 2
    /\ spawn[1].count = 17
    /\ nextId > 17
    /\ nextId < 34

\* h lies in [lo, hi]
Between(h, lo, hi) == h.den > 0 /\ lo * h.den <= h.num /\ h.num <= hi * h.den

\* the colour is of the bass cluster, the mid cluster, the treble cluster,
\* the fallback
BassCluster(c) ==
    Between(c.hue, 250, 310) /\ c.saturation = Frac(100, 1) /\ Between(c.lightness, 40, 70)
MidCluster(c) ==
    Between(c.hue, 90, 150) /\ Between(c.saturation, 90, 100) /\ Between(c.lightness, 45, 70)
TrebleCluster(c) ==
    Between(c.hue, -20, 60) /\ Between(c.saturation, 85, 100) /\ Between(c.lightness, 50, 70)
Fallback(c) ==
    Between(c.hue, 0, 360) /\ Between(c.saturation, 70, 100) /\ Between(c.lightness, 55, 75)

\* C16: the colour of a new particle is of the bass cluster whenever bass
\* exceeds 200, whatever mid and treble are; else of the mid cluster whenever
\* mid exceeds 180; else of the treble cluster whenever treble exceeds 160;
\* else the fallback; and of no other of the three clusters.
C16_ColorCascade ==
    spawn # <<>> =>
        LET c == spawn[1].color
        IN  IF FracGt(spawn[1].bass, 200)
                THEN BassCluster(c) /\ ~MidCluster(c) /\ ~TrebleCluster(c)
            ELSE IF FracGt(spawn[1].mid, 180)
                THEN MidCluster(c) /\ ~BassCluster(c) /\ ~TrebleCluster(c)
            ELSE IF FracGt(spawn[1].treble, 160)
                THEN TrebleCluster(c) /\ ~BassCluster(c) /\ ~MidCluster(c)
            ELSE Fallback(c) /\ ~BassCluster(c)

\* bass, mid and treble all above their thresholds: the bass cluster
C16_Witness ==
    /\ spawn # <<>>
    /\ spawn[1].bass = Frac(201, 1)
    /\ spawn[1].mid = Frac(255, 1)
    /\ spawn[1].treble = Frac(255, 1)
    /\ BassCluster(spawn[1].color)

\* the properties of Psych's analyzer are all 0 apart from bpm
PsychAllZero(q) ==
    /\ IsZero(q.volumeSq) /\ IsZero(q.bassLevel) /\ IsZero(q.midLevel)
    /\ IsZero(q.trebleLevel) /\ IsZero(q.energy) /\ IsZero(q.frequency)

\* the bands and the volume of the extractor's AudioInfo are all 0
InfoAllZero(a) == IsZero(a.bass) /\ IsZero(a.mid) /\ IsZero(a.treble) /\ IsZero(a.volume)

\* C18 as stated: an all-zero spectrum analysed on a fresh engine gives
\* volume, bass, mid, treble, energy and dominant frequency 0 and bpm 120.
C18_ZerosGiveDefaults ==
    /\ (Analysed /\ calls = 1 /\ frame = [n |-> 256, shape |-> "zeros", at |-> 0]) =>
            InfoAllZero(audioInfo) /\ audioInfo.bpm = 120
    /\ (PsychAnalysed /\ frame.shape = "zeros") =>
            PsychAllZero(audioProps[1]) /\ audioProps[1].bpm = Frac(120, 1)

\* C18 amended: 256 zeros analysed on a fresh extractor give volume, bass,
\* mid and treble 0 and bpm 120; an all-zero spectrum analysed by Psych's
\* analyzer gives volume, bass, mid, treble, energy and dominant frequency 0
\* and bpm 90.
C18_ZerosGive120Or90 ==
    /\ (Analysed /\ calls = 1 /\ frame = [n |-> 256, shape |-> "zeros", at |-> 0]) =>
            InfoAllZero(audioInfo) /\ audioInfo.bpm = 120
    /\ (PsychAnalysed /\ frame.shape = "zeros") =>
            /\ PsychAllZero(audioProps[1])
            /\ audioProps[1].bpm.num = 90 * audioProps[1].bpm.den

\* Psych's analyzer, initialised, has analysed an all-zero spectrum
C18_Witness ==
    /\ PsychAnalysed
    /\ analyser
    /\ frame.shape = "zeros"
    /\ frame.n = PsychBins

\* C20: every value an analyzer returns, the one returned before it is
\* initialised included, has each level in its range ([0, 1] for Psych's
\* analyzer, [0, 255] for the extractor on a spectrum that is not empty) and
\* its bpm in [60, 200].
C20_FeaturesInRange ==
    /\ audioProps # <<>> =>
            /\ Within(audioProps[1].volumeSq, 1) /\ Within(audioProps[1].bassLevel, 1)
            /\ Within(audioProps[1].midLevel, 1) /\ Within(audioProps[1].trebleLevel, 1)
            /\ Within(audioProps[1].energy, 1)
            /\ Between(audioProps[1].bpm, 60, 200)
    /\ (Analysed /\ frame.n > 0) =>
            /\ Within(audioInfo.volume, 255) /\ Within(audioInfo.bass, 255)
            /\ Within(audioInfo.mid, 255) /\ Within(audioInfo.treble, 255)
            /\ audioInfo.bpm \in 60..200

(***************************************************************************)
(* Starting without an audio source; the scenario of five samples.         *)
(***************************************************************************)
\* the number of animation frames of animate that are pending
PendingFrames == (IF framePending THEN 1 ELSE 0) + orphanFrames

\* the step is a start without an audio source: handleFileSelect without an
\* audio file, or animate run while analyserRef or dataArrayRef is null
IgnoredSelect ==
    /\ event'.fn = "handleFileSelect" /\ event'.outcome = "ignored"
    /\ event' # event
AnimateWithoutSource ==
    /\ ~analyser \/ ~dataArray
    /\ event'.fn = "animate"
    /\ orphanFrames' < orphanFrames

\* the state of the component and of the extractor is as it was
NothingMutated ==
    UNCHANGED <<extractor, audioInfo, allPeaks, particles, nextId, ticks, audioFile,
                isPlaying, analyser, dataArray, loading>>

\* C17 as stated: a start without an audio source reports an error, requests
\* no animation frame and mutates no state.
C17_NoSourceReportsError ==
    [][(IgnoredSelect \/ AnimateWithoutSource) =>
            /\ event'.reported # "nothing"
            /\ PendingFrames' <= PendingFrames
            /\ NothingMutated]_vars

\* C17 amended: a start without an audio source returns without reporting
\* anything; it requests no animation frame (the frame that ran animate is
\* used up) and mutates no state.
C17_NoSourceReturnsSilently ==
    /\ [][IgnoredSelect =>
            /\ event'.reported = "nothing"
            /\ PendingFrames' = PendingFrames
            /\ NothingMutated]_vars
    /\ [][AnimateWithoutSource =>
            /\ event'.reported = "nothing"
            /\ event'.outcome = "returned"
            /\ PendingFrames' = PendingFrames - 1
            /\ NothingMutated]_vars

\* animate has run after the stop, on a frame left pending by an earlier
\* start, and returned
C17_Witness ==
    /\ event.fn = "animate"
    /\ event.outcome = "returned"
    /\ ~isPlaying
    /\ ~analyser
    /\ ticks >= 2
    /\ PendingFrames = 0

\* the timestamps 0, 500, ..., 500 * (k - 1)
ScenarioTimes(k) == [i \in 1..k |-> 500 * (i - 1)]

\* C19: on a fresh estimator a sample above the threshold at each of 0, 500,
\* 1000, 1500 and 2000 ms is registered as a peak, the first one included;
\* after the fifth, four intervals of 500 ms are held and the estimate is 120.
C19_FiveSamplesFivePeaks ==
    [][\A k \in 0..4 :
            (/\ twin = <<>>
             /\ calls = k
             /\ calls' = k + 1
             /\ allPeaks = ScenarioTimes(k)
             /\ lastOp'.op = "detectBPM"
             /\ FracGt(lastOp'.bass, 180)
             /\ lastOp'.time = 500 * k)
                => /\ allPeaks' = ScenarioTimes(k + 1)
                   /\ extractor'.peaks = ScenarioTimes(k + 1)
                   /\ k = 4 => /\ extractor'.intervals = <<500, 500, 500, 500>>
                               /\ lastOp'.ret = 120]_vars

(***************************************************************************)
(* The dominant frequency and the volume.                                  *)
(***************************************************************************)
\* the 0-based index of the lowest bin that holds the largest magnitude of
\* each spectrum Psych's analyzer delivers
LowestMaxBin ==
    [fr \in PsychFrames |->
        LET d == Spectrum(fr)
        IN  CHOOSE i \in 0..(fr.n - 1) :
                /\ \A j \in 1..fr.n : d[j] <= d[i + 1]
                /\ \A j \in 1..i : d[j] < d[i + 1]]

\* C21: the dominant frequency returned for an N-bin spectrum is
\* bin_index * sampleRate / (2 * N), bin_index the lowest index of a bin of
\* the largest magnitude, and it is 0 for an all-zero spectrum.
C21_DominantFrequency ==
    PsychAnalysed =>
        /\ audioProps[1].frequency.den = 2 * frame.n
        /\ audioProps[1].frequency.num = LowestMaxBin[frame] * sampleRate
        /\ frame.shape = "zeros" => IsZero(audioProps[1].frequency)

\* a spectrum in which four bins tie for the largest magnitude was analysed:
\* the frequency is that of the lowest of them, bin 73
C21_Witness ==
    /\ PsychAnalysed
    /\ frame.shape = "ramp"
    /\ Cardinality({i \in 1..frame.n : Spectrum(frame)[i] = 255}) = 4
    /\ audioProps[1].frequency = Frac(73 * sampleRate, 2 * PsychBins)

\* C22: the volume of a non-empty all-zero frame is 0, and the volume of a
\* frame whose every bin is 255 is 255 for the extractor and 1 for Psych's
\* analyzer, whose levels are normalized (its volume is kept squared).
C22_VolumeOfZerosAndSaturated ==
    /\ (Analysed /\ frame.n > 0 /\ frame.shape = "zeros") => IsZero(audioInfo.volume)
    /\ (Analysed /\ frame.n > 0 /\ frame.shape = "full") =>
            /\ audioInfo.volume.den > 0
            /\ audioInfo.volume.num = 255 * audioInfo.volume.den
    /\ (PsychAnalysed /\ frame.shape = "zeros") => IsZero(audioProps[1].volumeSq)
    /\ (PsychAnalysed /\ frame.shape = "full") =>
            /\ audioProps[1].volumeSq.den > 0
            /\ audioProps[1].volumeSq.num = audioProps[1].volumeSq.den

\* the extractor has analysed a saturated frame of 100 bins
C22_Witness ==
    /\ Analysed
    /\ frame = [n |-> 100, shape |-> "full", at |-> 0]
    /\ audioInfo.volume = Frac(25500, 100)

(***************************************************************************)
(* Calls that register no peak; the histories of the estimator.            *)
(***************************************************************************)
\* the step is a call of detectBPM (by itself or within analyzeAudio) whose
\* sample is at or below the threshold, or arrives within the refractory
\* interval after the last registered peak (after time 0 when there is none)
CallWithoutPeak ==
    /\ calls' = calls + 1
    /\ IsCall(lastOp')
    /\ \/ ~FracGt(lastOp'.bass, 180)
       \/ lastOp'.time - LastPeakOrZero <= 200

\* C25: a detectBPM call that registers no peak leaves the peak history, the
\* interval history, the last-peak timestamp and the BPM estimate unchanged,
\* and returns the estimate held.
C25_NoPeakNoChange ==
    [][CallWithoutPeak =>
            /\ extractor'.peaks = extractor.peaks
            /\ extractor'.intervals = extractor.intervals
            /\ extractor'.lastPeakTime = extractor.lastPeakTime
            /\ extractor'.currentBPM = extractor.currentBPM
            /\ allPeaks' = allPeaks
            /\ lastOp'.ret = extractor.currentBPM]_vars

\* a sample at the threshold arrived a whole period after the last peak, with
\* intervals held and the estimate moved off its default
C25_Witness ==
    /\ lastOp.op = "detectBPM"
    /\ ~FracGt(lastOp.bass, 180)
    /\ allPeaks # <<>>
    /\ lastOp.time - Last(allPeaks) > 200
    /\ Len(extractor.intervals) >= 4
    /\ extractor.currentBPM # 120

\* C28: with non-decreasing timestamps every interval held is greater than
\* 200 ms and is the gap between two consecutively registered peaks, the
\* intervals held being the gaps between the latest peaks in order, and the
\* last-peak timestamp is the last element of a non-empty peak history.
C28_IntervalsAreGaps ==
    /\ \A i \in 1..Len(extractor.intervals) :
            /\ extractor.intervals[i] > 200
            /\ Len(Gaps(allPeaks)) >= Len(extractor.intervals)
            /\ extractor.intervals[i] =
                   Gaps(allPeaks)[Len(Gaps(allPeaks)) - Len(extractor.intervals) + i]
    /\ extractor.peaks # <<>> => extractor.lastPeakTime = Last(extractor.peaks)

\* after a reset, peaks were registered 201 ms apart and then a loud sample
\* arrived inside the refractory interval
C28_Witness ==
    /\ twin # <<>>
    /\ Len(extractor.intervals) >= 2
    /\ \E i \in 1..Len(extractor.intervals) : extractor.intervals[i] = 201
    /\ IsCall(lastOp) /\ FracGt(lastOp.bass, 180)
    /\ lastOp.time # Last(extractor.peaks)

(***************************************************************************)
(* The tick loop of AudioVisualizer.                                       *)
(***************************************************************************)
\* C24: whatever the order of file selections, starts and stops, at most one
\* animation-frame callback of animate is pending at any time.
C24_OneTickLoop == PendingFrames <= 1

\* C23: every particle handed to the renderer in a tick is younger than its
\* maxLife when it is drawn and is in the pool at the end of that tick.
C23_DrawnAreAlive ==
    lastTick # <<>> =>
        LET pool == {particles[j].id : j \in 1..Len(particles)}
        IN  \A i \in 1..Len(lastTick[1].drawn) :
                /\ lastTick[1].drawn[i].life * lastTick[1].drawn[i].maxLife.den
                       < lastTick[1].drawn[i].maxLife.num
                /\ lastTick[1].drawn[i].id \in pool

(***************************************************************************)
(* The motion of the particles: resize, wrap-around and hue.               *)
(***************************************************************************)
\* the k-th particle a tick worked on: as it entered the filter callback, as
\* it left it, and its position after the velocity was added
TickBpmMovement == Lowest(audioInfo.bpm, 300)
RawX(i) == FracAdd(lastTick[1].before[i].x, FracMul(lastTick[1].before[i].vx, TickBpmMovement))
RawY(i) == FracAdd(lastTick[1].before[i].y, FracMul(lastTick[1].before[i].vy, TickBpmMovement))

\* lo <= r <= hi for whole lo and hi
FracWithin(r, lo, hi) == ~FracLt(r, lo) /\ ~FracGt(r, hi)

\* the state the resize handler must leave alone: the particles, the tempo
\* state and the pending animation frames
ResizeKeeps ==
    UNCHANGED <<particles, nextId, ticks, extractor, audioInfo, allPeaks, twin, now,
                framePending, orphanFrames, audioFile, isPlaying, analyser, dataArray>>

\* C26: a resize changes only the width and height of the canvas: it leaves
\* the particles and the tempo state unchanged and neither requests nor
\* cancels an animation frame; a tick spawns within, and wraps around, the
\* width and height the canvas has when the tick runs.
C26_ResizeOnlyBounds ==
    [][/\ canvas' # canvas => ResizeKeeps
       /\ (ticks' = ticks + 1 /\ lastTick' # <<>>) =>
            /\ canvas' = canvas
            /\ \A i \in 1..Len(lastTick'[1].born) :
                 /\ FracWithin(lastTick'[1].born[i].x, 0, canvas.width)
                 /\ FracWithin(lastTick'[1].born[i].y, 0, canvas.height)
            /\ \A i \in 1..Len(lastTick'[1].drawn) :
                 /\ FracWithin(lastTick'[1].drawn[i].x, -100, canvas.width + 100)
                 /\ FracWithin(lastTick'[1].drawn[i].y, -100, canvas.height + 100)]_vars

\* a tick has run on a canvas that had shrunk since a particle of the pool
\* was placed: the particle lay beyond the new right margin, and the tick
\* spawned particles
C26_Witness ==
    /\ lastTick # <<>>
    /\ lastTick[1].spawned > 0
    /\ \E i \in 1..Len(lastTick[1].before) :
         FracGt(lastTick[1].before[i].x, canvas.width + 100)
    /\ \E i \in 1..Len(particles) : particles[i].life > 30

\* C27: at the end of every tick each particle has x in [-100, width + 100]
\* and y in [-100, height + 100]; a particle that moved past a bound by more
\* than the margin is on the opposite edge, any other is where its velocity
\* took it.
C27_WrappedWithinMargin ==
    lastTick # <<>> =>
        /\ \A i \in 1..Len(particles) :
             /\ FracWithin(particles[i].x, -100, canvas.width + 100)
             /\ FracWithin(particles[i].y, -100, canvas.height + 100)
        /\ \A i \in 1..Len(lastTick[1].drawn) :
             /\ lastTick[1].drawn[i].x =
                    IF FracLt(RawX(i), -100) THEN Frac(canvas.width + 100, 1)
                    ELSE IF FracGt(RawX(i), canvas.width + 100) THEN Frac(-100, 1)
                    ELSE RawX(i)
             /\ lastTick[1].drawn[i].y =
                    IF FracLt(RawY(i), -100) THEN Frac(canvas.height + 100, 1)
                    ELSE IF FracGt(RawY(i), canvas.height + 100) THEN Frac(-100, 1)
                    ELSE RawY(i)

\* a tick moved one particle past the left margin and one past the bottom
\* margin, and left another where its velocity took it
C27_Witness ==
    /\ lastTick # <<>>
    /\ \E i \in 1..Len(lastTick[1].drawn) :
         FracLt(RawX(i), -100) /\ lastTick[1].drawn[i].x = Frac(canvas.width + 100, 1)
    /\ \E i \in 1..Len(lastTick[1].drawn) :
         FracGt(RawY(i), canvas.height + 100) /\ lastTick[1].drawn[i].y = Frac(-100, 1)
    /\ \E i \in 1..Len(lastTick[1].drawn) :
         FracWithin(RawX(i), 0, canvas.width) /\ lastTick[1].drawn[i].x = RawX(i)

\* the hues of the particles of the pool and of the last tick: as spawned
\* and as the filter callback left them
HuesInPlay ==
    {particles[i].hue : i \in 1..Len(particles)}
    \cup (IF lastTick = <<>> THEN {}
          ELSE {lastTick[1].born[i].hue : i \in 1..Len(lastTick[1].born)}
               \cup {lastTick[1].drawn[i].hue : i \in 1..Len(lastTick[1].drawn)})

\* C29 as stated: every particle's hue lies in [0, 360) from the moment it is
\* spawned and after every tick.
C29_HueInWheel == \A h \in HuesInPlay : ~FracLt(h, 0) /\ FracLt(h, 360)

\* C29: every particle's hue lies in [-20, 360) from the moment it is spawned
\* and after every tick, for every branch of getFrequencyColor and every
\* jitter value.
C29_HueFromMinusTwenty == \A h \in HuesInPlay : ~FracLt(h, -20) /\ FracLt(h, 360)

\* a tick spawned a particle of the treble branch with a negative hue and
\* took the hue of another particle past 360, where it wrapped
C29_Witness ==
    /\ lastTick # <<>>
    /\ \E i \in 1..Len(lastTick[1].born) : FracLt(lastTick[1].born[i].hue, 0)
    /\ \E i \in 1..Len(lastTick[1].drawn) :
         /\ ~FracLt(FracAdd(lastTick[1].before[i].hue,
                            FracMul(Frac(1, 2), TickBpmMovement)), 360)
         /\ FracLt(lastTick[1].drawn[i].hue, 1)

====
